---- MODULE Spec2Model ----
(***************************************************************************)
(* Model of src/src/lib.rs: MinimizerQueue and ImplicitMinimizerQueue,     *)
(* the monotone deques that report the minimum-hash element of a sliding   *)
(* window of fixed width.                                                  *)
(*                                                                         *)
(* Three queues are driven in lockstep by the same calls:                  *)
(*   mq   a MinimizerQueue,                                                *)
(*   mq2  a second MinimizerQueue built with the same width and seed,      *)
(*   imq  an ImplicitMinimizerQueue of the same width and seed.            *)
(* win is a history variable: the elements inserted since construction or  *)
(* the last clear, at most the last W of them (the logical window).        *)
(* cost is a history variable that counts the work of the insert calls; it *)
(* is only advanced by the specification SpecCost.                         *)
(* overflow_checks is the build: TRUE when integer overflow panics (the     *)
(* dev profile), FALSE when it wraps (the release profile).                *)
(***************************************************************************)
EXTENDS Integers, Sequences, FiniteSets

VARIABLES mq, mq2, imq, win, cost, overflow_checks

vars == <<mq, mq2, imq, win, cost, overflow_checks>>

\* ---- bounds ----
MaxWidth == 3
MaxSeed == 0
NumVals == 2
NumHashes == 3
MaxInserts == 5

Widths == 1..MaxWidth
Vals == 0..(NumVals - 1)
Hashes == 0..(NumHashes - 1)
Seeds == 0..MaxSeed

\* u16 is the type of width, pos and the stored slots.
U16Modulus == 65536

\* Option<T>
None == <<>>
Some(v) == <<v>>

\* outcome of a call: the returned value, or the panic of a failed
\* debug_assert (of the out-of-bounds index deq[0] without debug assertions)
Ok(v) == <<"ok", v>>
Panic == <<"panic">>

\* u16 addition (wrapping, as in a build without overflow checks)
add_u16(a, b) == (a + b) % U16Modulus

\* u16 addition in a build with overflow checks: panics above u16::MAX
add_panics(a, b) == overflow_checks /\ a + b >= U16Modulus

\* S::hash_one of the default hasher built from a seed: a fixed function of
\* the seed and the element.  The hasher itself is an external crate; what
\* the queue relies on is that the score depends only on (seed, x).
hash_one(hash_builder, x) == (hash_builder * (x + 1) + x) % NumHashes

\* ---------------------------------------------------------------------
\* MinimizerQueue
\* ---------------------------------------------------------------------

\* StrengthReducedU16::new(width): the divisor in its reduced form, or the
\* panic of the strength_reduce crate on a zero divisor (the crate is not
\* part of the repository; a zero width is a construction-time precondition
\* violation)
StrengthReducedU16_new(divisor) == IF divisor = 0 THEN Panic ELSE Ok(divisor)

\* what is left of a constructor call that panicked: no queue
NoQueue == [panicked |-> TRUE]

IsQueue(q) == "deq" \in DOMAIN q

with_hasher_raw_width(w, hash_builder) ==
    [deq |-> <<>>, width |-> w, hash_builder |-> hash_builder, pos |-> 0]

with_hasher(w, hash_builder) ==
    IF StrengthReducedU16_new(w) = Panic THEN NoQueue
    ELSE [deq |-> <<>>, width |-> StrengthReducedU16_new(w)[2],
          hash_builder |-> hash_builder, pos |-> 0]

with_seed(w, seed) == with_hasher(w, seed)

new_seed_dropped(w) == with_seed(w, 0)

new(w) == with_seed(w, w)

width(q) == q.width

is_empty(q) == q.deq = <<>>

multiple_mins(q) == Len(q.deq) >= 2 /\ q.deq[1][2] = q.deq[2][2]

get_min(q) == IF q.deq = <<>> THEN Panic ELSE Ok(q.deq[1][1])

rel_pos_absolute(q, pos) == pos % q.width

rel_pos_swapped(q, pos) == add_u16(q.width - pos, q.pos) % q.width

\* ((self.width.get() - self.pos + pos) % self.width)
rel_pos(q, pos) == add_u16(q.width - q.pos, pos) % q.width

get_min_pos(q) ==
    IF q.deq = <<>> THEN Panic
    ELSE IF add_panics(q.width - q.pos, q.deq[1][3]) THEN Panic
    ELSE Ok(<<q.deq[1][1], rel_pos(q, q.deq[1][3])>>)

\* the while loop of get_inner_min_pos; i is the 0-based index of the code
RECURSIVE inner_loop_off_by_one(_, _, _, _)
inner_loop_off_by_one(q, x, x_pos, i) ==
    IF i < Len(q.deq) /\ q.deq[i + 1][2] = q.deq[1][2]
    THEN LET y == q.deq[i + 1][1]
             y_pos == rel_pos(q, q.deq[i + 1][3])
         IN  IF x_pos < q.width - y_pos
             THEN inner_loop_off_by_one(q, y, y_pos, i + 1)
             ELSE IF x_pos = q.width - y_pos
                  THEN Ok(<<x, x_pos, Some(<<y, y_pos>>)>>)
                  ELSE Ok(<<x, x_pos, None>>)
    ELSE Ok(<<x, x_pos, None>>)

RECURSIVE inner_loop_any_hash(_, _, _, _)
inner_loop_any_hash(q, x, x_pos, i) ==
    IF i < Len(q.deq)
    THEN LET y == q.deq[i + 1][1]
             y_pos == rel_pos(q, q.deq[i + 1][3])
         IN  IF x_pos < q.width - 1 - y_pos
             THEN inner_loop_any_hash(q, y, y_pos, i + 1)
             ELSE IF x_pos = q.width - 1 - y_pos
                  THEN Ok(<<x, x_pos, Some(<<y, y_pos>>)>>)
                  ELSE Ok(<<x, x_pos, None>>)
    ELSE Ok(<<x, x_pos, None>>)

RECURSIVE inner_loop(_, _, _, _)
inner_loop(q, x, x_pos, i) ==
    IF i < Len(q.deq) /\ q.deq[i + 1][2] = q.deq[1][2]
    THEN LET y == q.deq[i + 1][1]
             y_pos == rel_pos(q, q.deq[i + 1][3])
         IN  IF add_panics(q.width - q.pos, q.deq[i + 1][3]) THEN Panic
             ELSE IF x_pos < q.width - 1 - y_pos
             THEN inner_loop(q, y, y_pos, i + 1)
             ELSE IF x_pos = q.width - 1 - y_pos
                  THEN Ok(<<x, x_pos, Some(<<y, y_pos>>)>>)
                  ELSE Ok(<<x, x_pos, None>>)
    ELSE Ok(<<x, x_pos, None>>)

get_inner_min_pos(q) ==
    IF q.deq = <<>> THEN Panic
    ELSE IF add_panics(q.width - q.pos, q.deq[1][3]) THEN Panic
    ELSE inner_loop(q, q.deq[1][1], rel_pos(q, q.deq[1][3]), 1)

\* lines 126-128: drop the front entry when its slot is about to be reused
pop_expired_never(q) == q.deq

pop_expired_early(q) ==
    IF q.deq # <<>> /\ q.deq[1][3] = (q.pos + 1) % q.width
    THEN Tail(q.deq) ELSE q.deq

pop_expired(q) ==
    IF q.deq # <<>> /\ q.deq[1][3] = q.pos THEN Tail(q.deq) ELSE q.deq

\* lines 129-132: index after the back scan
RECURSIVE back_scan_le(_, _, _)
back_scan_le(deq, hash, i) ==
    IF i > 0 /\ hash <= deq[i][2] THEN back_scan_le(deq, hash, i - 1) ELSE i

back_scan_none(deq, hash, i) == i

RECURSIVE back_scan(_, _, _)
back_scan(deq, hash, i) ==
    IF i > 0 /\ hash < deq[i][2] THEN back_scan(deq, hash, i - 1) ELSE i

insert_with_hash_unwrapped(q, x, hash) ==
    LET d1 == pop_expired(q)
        i  == back_scan(d1, hash, Len(d1))
    IN  [q EXCEPT !.deq = Append(SubSeq(d1, 1, i), <<x, hash, q.pos>>),
                  !.pos = q.pos + 1]

insert_with_hash(q, x, hash) ==
    LET d1 == pop_expired(q)
        i  == back_scan(d1, hash, Len(d1))
    IN  [q EXCEPT !.deq = Append(SubSeq(d1, 1, i), <<x, hash, q.pos>>),
                  !.pos = (q.pos + 1) % q.width]

insert(q, x) == insert_with_hash(q, x, hash_one(q.hash_builder, x))

\* work of one insert_with_hash call: entries popped at the front (lines
\* 126-128), entries cut at the back (line 133), and evaluations of
\* `hash < self.deq[i - 1].1` by the loop of lines 130-132
evicted(q) == Len(q.deq) - Len(pop_expired(q))

truncated(q, hash) ==
    LET d1 == pop_expired(q)
    IN  Len(d1) - back_scan(d1, hash, Len(d1))

RECURSIVE back_scan_comparisons(_, _, _)
back_scan_comparisons(deq, hash, i) ==
    IF i > 0
    THEN IF hash < deq[i][2]
         THEN 1 + back_scan_comparisons(deq, hash, i - 1)
         ELSE 1
    ELSE 0

compared(q, hash) ==
    LET d1 == pop_expired(q)
    IN  back_scan_comparisons(d1, hash, Len(d1))

clear_noop(q) == q

clear_and_rewind(q) == [q EXCEPT !.deq = <<>>, !.pos = 0]

clear(q) == [q EXCEPT !.deq = <<>>]

\* ---------------------------------------------------------------------
\* ImplicitMinimizerQueue: entries are (hash, slot)
\* ---------------------------------------------------------------------

Implicit_with_hasher(w, hash_builder) ==
    IF StrengthReducedU16_new(w) = Panic THEN NoQueue
    ELSE [deq |-> <<>>, width |-> StrengthReducedU16_new(w)[2],
          hash_builder |-> hash_builder, pos |-> 0]

Implicit_with_seed(w, seed) == Implicit_with_hasher(w, seed)

Implicit_new(w) == Implicit_with_seed(w, w)

Implicit_is_empty(q) == q.deq = <<>>

Implicit_multiple_mins(q) == Len(q.deq) >= 2 /\ q.deq[1][1] = q.deq[2][1]

Implicit_rel_pos(q, pos) == add_u16(q.width - q.pos, pos) % q.width

Implicit_get_min_pos(q) ==
    IF q.deq = <<>> THEN Panic
    ELSE IF add_panics(q.width - q.pos, q.deq[1][2]) THEN Panic
    ELSE Ok(Implicit_rel_pos(q, q.deq[1][2]))

RECURSIVE Implicit_inner_loop(_, _, _)
Implicit_inner_loop(q, x_pos, i) ==
    IF i < Len(q.deq) /\ q.deq[i + 1][1] = q.deq[1][1]
    THEN LET y_pos == Implicit_rel_pos(q, q.deq[i + 1][2])
         IN  IF add_panics(q.width - q.pos, q.deq[i + 1][2]) THEN Panic
             ELSE IF x_pos < q.width - 1 - y_pos
             THEN Implicit_inner_loop(q, y_pos, i + 1)
             ELSE IF x_pos = q.width - 1 - y_pos
                  THEN Ok(<<x_pos, Some(y_pos)>>)
                  ELSE Ok(<<x_pos, None>>)
    ELSE Ok(<<x_pos, None>>)

Implicit_get_inner_min_pos(q) ==
    IF q.deq = <<>> THEN Panic
    ELSE IF add_panics(q.width - q.pos, q.deq[1][2]) THEN Panic
    ELSE Implicit_inner_loop(q, Implicit_rel_pos(q, q.deq[1][2]), 1)

RECURSIVE Implicit_back_scan_le(_, _, _)
Implicit_back_scan_le(deq, hash, i) ==
    IF i > 0 /\ hash <= deq[i][1] THEN Implicit_back_scan_le(deq, hash, i - 1) ELSE i

RECURSIVE Implicit_back_scan(_, _, _)
Implicit_back_scan(deq, hash, i) ==
    IF i > 0 /\ hash < deq[i][1] THEN Implicit_back_scan(deq, hash, i - 1) ELSE i

Implicit_pop_expired(q) ==
    IF q.deq # <<>> /\ q.deq[1][2] = q.pos THEN Tail(q.deq) ELSE q.deq

Implicit_insert_hash(q, hash) ==
    LET d1 == Implicit_pop_expired(q)
        i  == Implicit_back_scan(d1, hash, Len(d1))
    IN  [q EXCEPT !.deq = Append(SubSeq(d1, 1, i), <<hash, q.pos>>),
                  !.pos = (q.pos + 1) % q.width]

Implicit_insert(q, x) == Implicit_insert_hash(q, hash_one(q.hash_builder, x))

Implicit_clear(q) == [q EXCEPT !.deq = <<>>]

\* ---------------------------------------------------------------------
\* History: the logical window
\* ---------------------------------------------------------------------

\* the last W elements of s
LastW(s, w) == IF Len(s) <= w THEN s ELSE SubSeq(s, Len(s) - w + 1, Len(s))

\* ---------------------------------------------------------------------
\* The state machine
\* ---------------------------------------------------------------------

\* nothing inserted yet; last is the <<evicted, truncated>> of the latest insert
ZeroCost == [inserts |-> 0, removed |-> 0, compared |-> 0, last |-> <<0, 0>>]

\* the build profiles: with overflow checks (TRUE) and without (FALSE)
Profiles == BOOLEAN

\* a u16 sum width - pos + slot is below 2 * width, so the profiles differ
\* only for widths above 2^15; narrower queues are run in one profile
NarrowProfiles == {FALSE}

\* construction of the three queues with a width taken from ws, in a build
\* of one of the profiles ps
Construct(ws, ps) ==
    \E w \in ws, s \in Seeds, ctor \in {"new", "with_seed"} :
        /\ mq = IF ctor = "new" THEN new(w) ELSE with_seed(w, s)
        /\ mq2 = with_seed(w, IF ctor = "new" THEN w ELSE s)
        /\ imq = IF ctor = "new" THEN Implicit_new(w) ELSE Implicit_with_seed(w, s)
        /\ win = <<>>
        /\ cost = ZeroCost
        /\ overflow_checks \in ps

Init == Construct(Widths, NarrowProfiles)

\* queue.insert(x) on the three queues
Insert ==
    \E x \in Vals :
        /\ IsQueue(mq)
        /\ mq' = insert(mq, x)
        /\ mq2' = insert(mq2, x)
        /\ imq' = Implicit_insert(imq, x)
        /\ win' = LastW(Append(win, <<x, hash_one(mq.hash_builder, x)>>), mq.width)
        /\ UNCHANGED <<cost, overflow_checks>>

\* queue.insert_with_hash(x, hash) / queue.insert_hash(hash)
InsertWithHash ==
    \E x \in Vals, hash \in Hashes :
        /\ IsQueue(mq)
        /\ mq' = insert_with_hash(mq, x, hash)
        /\ mq2' = insert_with_hash(mq2, x, hash)
        /\ imq' = Implicit_insert_hash(imq, hash)
        /\ win' = LastW(Append(win, <<x, hash>>), mq.width)
        /\ UNCHANGED <<cost, overflow_checks>>

\* queue.clear()
Clear ==
    /\ IsQueue(mq)
    /\ mq' = clear(mq)
    /\ mq2' = clear(mq2)
    /\ imq' = Implicit_clear(imq)
    /\ win' = <<>>
    /\ UNCHANGED <<cost, overflow_checks>>

Next == Insert \/ Clear \/ InsertWithHash

Spec == Init /\ [][Next]_vars

\* mq.clear() next to the construction of a fresh queue of the same width
\* and hasher in mq2
ClearAndRebuild ==
    /\ IsQueue(mq)
    /\ mq' = clear(mq)
    /\ mq2' = with_hasher(width(mq2), mq2.hash_builder)
    /\ imq' = Implicit_clear(imq)
    /\ win' = <<>>
    /\ UNCHANGED <<cost, overflow_checks>>

InitFresh ==
    \E w \in Widths :
        /\ mq = new(w)
        /\ mq2 = new(w)
        /\ imq = Implicit_new(w)
        /\ win = <<>>
        /\ cost = ZeroCost
        /\ overflow_checks \in NarrowProfiles

NextFresh == InsertWithHash \/ ClearAndRebuild

\* a cleared queue (mq) run against a freshly constructed one (mq2)
SpecFresh == InitFresh /\ [][NextFresh]_vars

\* queue.insert_with_hash(x, hash) / queue.insert_hash(hash) with its work
\* counted, for runs of at most MaxInserts insert calls
CountedInsert ==
    \E x \in Vals, hash \in Hashes :
        /\ IsQueue(mq)
        /\ cost.inserts < MaxInserts
        /\ mq' = insert_with_hash(mq, x, hash)
        /\ mq2' = insert_with_hash(mq2, x, hash)
        /\ imq' = Implicit_insert_hash(imq, hash)
        /\ win' = LastW(Append(win, <<x, hash>>), mq.width)
        /\ cost' = [inserts  |-> cost.inserts + 1,
                    removed  |-> cost.removed + evicted(mq) + truncated(mq, hash),
                    compared |-> cost.compared + compared(mq, hash),
                    last     |-> <<evicted(mq), truncated(mq, hash)>>]
        /\ UNCHANGED overflow_checks

NextCost == CountedInsert \/ Clear

\* runs of at most MaxInserts inserts and any clears, with the work counted
SpecCost == InitFresh /\ [][NextCost]_vars

\* the smallest width for which width - pos + slot can exceed u16::MAX
WideWidths == {U16Modulus \div 2 + 1}

InitWide == Construct(WideWidths, Profiles)

\* an insert into an empty buffer (the caller clears before every insert)
WideInsert == win = <<>> /\ InsertWithHash

NextWide == WideInsert \/ ClearAndRebuild

\* a queue of a width above 2^15 in either profile, cleared before every
\* insert (mq2 is constructed anew at each clear)
SpecWide == InitWide /\ [][NextWide]_vars

\* number of insert calls followed once the slot counter is about to wrap
WideSteps == 3

\* the queue q of width w after w - 2 calls insert_with_hash(0, NumHashes - 1)
\* and one call insert_with_hash(0, NumHashes - 2): no front eviction took
\* place yet, the equal hashes piled up and the last call cut them all
prefilled(q) ==
    [q EXCEPT !.deq = <<<<0, NumHashes - 2, q.width - 2>>>>,
              !.pos = q.width - 1]

Implicit_prefilled(q) ==
    [q EXCEPT !.deq = <<<<NumHashes - 2, q.width - 2>>>>,
              !.pos = q.width - 1]

\* a wide queue one insert before its window is full for the first time
InitWideFull ==
    \E w \in WideWidths :
        /\ mq = prefilled(new(w))
        /\ mq2 = prefilled(new(w))
        /\ imq = Implicit_prefilled(Implicit_new(w))
        /\ win = [i \in 1..(w - 1) |->
                     <<0, IF i < w - 1 THEN NumHashes - 1 ELSE NumHashes - 2>>]
        /\ cost = ZeroCost
        /\ overflow_checks \in Profiles

\* prefilled is what the inserts it stands for leave behind: an invariant of
\* Spec and SpecFresh, where the widths are small enough to run them
PrefilledAsInserted ==
    (/\ mq.width >= 2 /\ mq.pos = mq.width - 1
     /\ win = [i \in 1..(mq.width - 1) |->
                  <<0, IF i < mq.width - 1 THEN NumHashes - 1
                                           ELSE NumHashes - 2>>])
        => /\ mq.deq = prefilled(mq).deq
           /\ imq.deq = Implicit_prefilled(imq).deq

\* the insert calls from the last slot of the first turn on, WideSteps of them
WideFullInsert ==
    /\ mq.pos = mq.width - 1 \/ mq.pos < WideSteps - 1
    /\ InsertWithHash

\* a queue of a width above 2^15 whose window fills up and slides, no clear
SpecWideFull == InitWideFull /\ [][WideFullInsert]_vars

\* the same machine, with constructor calls of width 0 among the initial calls
InitCtor == Construct(0..MaxWidth, NarrowProfiles)

SpecCtor == InitCtor /\ [][Next]_vars

\* ---------------------------------------------------------------------
\* Reference definitions over the logical window (win holds <<x, hash>>)
\* ---------------------------------------------------------------------

W == mq.width

\* the smallest hash in a non-empty window
MinHash(s) == CHOOSE h \in {s[i][2] : i \in 1..Len(s)} :
                  \A j \in 1..Len(s) : h <= s[j][2]

\* indices of the window's elements that carry the smallest hash
MinIdxs(s) == {i \in 1..Len(s) : s[i][2] = MinHash(s)}

\* index of the earliest-inserted element carrying the smallest hash
EarliestMinIdx(s) == CHOOSE i \in MinIdxs(s) : \A j \in MinIdxs(s) : i <= j

\* relative position of win[i] counted so that the newest element is W-1
WinPos(i) == W - Len(win) + (i - 1)

\* index in win of the element at relative position p
WinIdx(p) == p - (W - Len(win)) + 1

\* distance of a position to the nearer edge of the window
Centrality(p) == IF p <= W - 1 - p THEN p ELSE W - 1 - p

\* relative positions of the window's elements carrying the smallest hash
TieGroup == {WinPos(i) : i \in MinIdxs(win)}

\* ---------------------------------------------------------------------
\* Claims
\* ---------------------------------------------------------------------

\* C1: get_min() after the i-th insert returns the element with the
\* smallest hash among the last min(i, W) inserted elements, the
\* earliest-inserted one among equal hashes; this holds in the filling
\* phase (i < W) too.  (win restarts at a clear, so the statement is
\* checked for the inserts since the last clear as well.)
C1_GetMinIsWindowMin ==
    win # <<>> =>
        get_min(mq) = Ok(win[EarliestMinIdx(win)][1])

\* a sliding window of width 3 (pos = 1 with a full window) whose two
\* newest elements tie for the smallest hash and carry different values
C1_Witness ==
    /\ W = 3 /\ Len(win) = 3 /\ mq.pos = 1
    /\ win[2][2] = win[3][2] /\ win[1][2] > win[2][2]
    /\ win[2][1] # win[3][1]
    /\ get_min(mq) = Ok(win[2][1])

\* C2: after n >= W inserts (the window is full), get_min_pos() returns
\* (v, p) with 0 <= p < W, the element at offset p of the last W inserted
\* elements is v, v = get_min(), and p is the smallest offset holding the
\* minimal hash; the implicit queue reports the same p.
C2_GetMinPosInWindow ==
    Len(win) = W =>
        LET r == get_min_pos(mq)
            v == r[2][1]
            p == r[2][2]
        IN  /\ r[1] = "ok"
            /\ p \in 0..(W - 1)
            /\ win[p + 1][1] = v
            /\ get_min(mq) = Ok(v)
            /\ win[p + 1][2] = MinHash(win)
            /\ \A j \in 1..p : win[j][2] # MinHash(win)
            /\ Implicit_get_min_pos(imq) = Ok(p)

\* a full window of width 3, slid at least twice, whose minimum sits at
\* offset 1 and is tied with the newest element
C2_Witness ==
    /\ W = 3 /\ Len(win) = 3 /\ mq.pos = 2
    /\ win[1][2] > win[2][2] /\ win[3][2] = win[2][2]
    /\ get_min_pos(mq) = Ok(<<win[2][1], 1>>)

\* C3: with at least one inserted element, get_inner_min_pos() returns a
\* position p of the tie group G with maximal centrality c(p) = min(p, W-1-p);
\* it returns a second candidate q iff G has another position of the same
\* centrality, and then q is that position, p + q = W-1 and p < q.  The
\* returned elements are the ones at those positions.
C3_InnerMinIsMostCentral ==
    win # <<>> =>
        LET r == get_inner_min_pos(mq)
            x == r[2][1]
            p == r[2][2]
            second == r[2][3]
        IN  /\ r[1] = "ok"
            /\ p \in TieGroup
            /\ \A g \in TieGroup : Centrality(g) <= Centrality(p)
            /\ win[WinIdx(p)][1] = x
            /\ (second # None) <=>
                   (\E g \in TieGroup : g # p /\ Centrality(g) = Centrality(p))
            /\ second # None =>
                   LET y == second[1][1]
                       q == second[1][2]
                   IN  /\ q \in TieGroup /\ q # p
                       /\ Centrality(q) = Centrality(p)
                       /\ p + q = W - 1 /\ p < q
                       /\ win[WinIdx(q)][1] = y
            /\ Implicit_get_inner_min_pos(imq) =
                   Ok(<<p, IF second = None THEN None ELSE Some(second[1][2])>>)

\* width 3, the oldest and the newest element tie below the middle one:
\* positions 0 and 2 mirror each other and are both returned
C3_Witness ==
    /\ W = 3 /\ Len(win) = 3
    /\ win[1][2] = win[3][2] /\ win[1][2] < win[2][2]
    /\ win[1][1] # win[3][1]
    /\ get_inner_min_pos(mq) = Ok(<<win[1][1], 0, Some(<<win[3][1], 2>>)>>)

\* C4: the hashes stored in the buffer are non-decreasing front to back,
\* in both queues, after any interleaving of inserts and clears.
C4_HashesNonDecreasing ==
    /\ \A i \in 1..(Len(mq.deq) - 1) : mq.deq[i][2] <= mq.deq[i + 1][2]
    /\ \A i \in 1..(Len(imq.deq) - 1) : imq.deq[i][1] <= imq.deq[i + 1][1]

\* a buffer of three entries with strictly increasing hashes
C4_Witness ==
    /\ Len(mq.deq) = 3 /\ Len(imq.deq) = 3
    /\ mq.deq[1][2] < mq.deq[2][2] /\ mq.deq[2][2] < mq.deq[3][2]

\* C5: the buffer holds at most W entries, for every width including 1.
C5_AtMostWEntries ==
    /\ Len(mq.deq) <= W
    /\ Len(imq.deq) <= imq.width

\* a buffer that is full (W entries, W >= 2) right before a front eviction
C5_Witness ==
    /\ W >= 2 /\ Len(mq.deq) = W /\ Len(imq.deq) = W
    /\ mq.deq[1][3] = mq.pos

\* C6: an ImplicitMinimizerQueue and a MinimizerQueue of the same width,
\* driven by the same hashes and the same clears, agree: same (hash, slot)
\* buffer and slot counter, same get_min_pos position, same
\* get_inner_min_pos positions (second candidate included), same
\* multiple_mins and is_empty.
C6_ImplicitAgreesWithExplicit ==
    /\ imq.deq = [i \in 1..Len(mq.deq) |-> <<mq.deq[i][2], mq.deq[i][3]>>]
    /\ imq.pos = mq.pos
    /\ imq.width = mq.width
    /\ Implicit_is_empty(imq) = is_empty(mq)
    /\ Implicit_multiple_mins(imq) = multiple_mins(mq)
    /\ is_empty(mq) =>
           /\ Implicit_get_min_pos(imq) = Panic
           /\ Implicit_get_inner_min_pos(imq) = Panic
    /\ ~is_empty(mq) =>
           LET m == get_min_pos(mq)
               r == get_inner_min_pos(mq)
           IN  /\ Implicit_get_min_pos(imq) =
                      IF m = Panic THEN Panic ELSE Ok(m[2][2])
               /\ Implicit_get_inner_min_pos(imq) =
                      IF r = Panic THEN Panic
                      ELSE Ok(<<r[2][2], IF r[2][3] = None THEN None
                                         ELSE Some(r[2][3][1][2])>>)

\* a width-2 window mid-cycle (slot counter 1): both queues hold two tied
\* entries and report a second candidate
C6_Witness ==
    /\ Len(win) = 2 /\ W = 2 /\ mq.pos = 1 /\ Len(imq.deq) >= 2 /\ Len(mq.deq) >= 2
    /\ Implicit_multiple_mins(imq)
    /\ Implicit_get_inner_min_pos(imq)[1] = "ok"
    /\ Implicit_get_inner_min_pos(imq)[2][2] # None
    /\ get_inner_min_pos(mq)[2][3] # None

\* C7: multiple_mins() is true iff at least two elements of the current
\* window (the last min(i, W) elements inserted since construction or the
\* last clear) carry the window's minimal hash.
C7_MultipleMinsIffTie ==
    /\ multiple_mins(mq) <=> (win # <<>> /\ Cardinality(MinIdxs(win)) >= 2)
    /\ Implicit_multiple_mins(imq) <=> (win # <<>> /\ Cardinality(MinIdxs(win)) >= 2)

\* a full window whose oldest and newest elements tie for the minimum,
\* with a larger hash between them that the buffer has dropped
C7_Witness ==
    /\ W = 3 /\ Len(win) = 3
    /\ win[1][2] = win[3][2] /\ win[2][2] > win[1][2]
    /\ Len(mq.deq) = 2
    /\ multiple_mins(mq)

\* C8: the three queries panic exactly when the buffer is empty, and the
\* buffer is empty exactly when nothing was inserted since construction
\* or the last clear; is_empty() says so.
C8_PanicIffEmpty ==
    /\ (get_min(mq) = Panic) <=> (mq.deq = <<>>)
    /\ (get_min_pos(mq) = Panic) <=> (mq.deq = <<>>)
    /\ (get_inner_min_pos(mq) = Panic) <=> (mq.deq = <<>>)
    /\ (mq.deq = <<>>) <=> (win = <<>>)
    /\ is_empty(mq) <=> (win = <<>>)

\* a queue cleared after some inserts: the queries panic again
C8_Witness ==
    /\ win = <<>> /\ mq.pos # 0
    /\ is_empty(mq)
    /\ get_min(mq) = Panic /\ get_min_pos(mq) = Panic
    /\ get_inner_min_pos(mq) = Panic

C11_ZeroWidthRejected ==
    /\ \A s \in Seeds :
           /\ ~IsQueue(with_hasher(0, s)) /\ ~IsQueue(with_seed(0, s))
           /\ ~IsQueue(Implicit_with_hasher(0, s))
           /\ ~IsQueue(Implicit_with_seed(0, s))
    /\ ~IsQueue(new(0)) /\ ~IsQueue(Implicit_new(0))
    /\ IsQueue(mq) => mq.width >= 1
    /\ IsQueue(mq2) => mq2.width >= 1
    /\ IsQueue(imq) => imq.width >= 1

\* the state left by the constructor calls of width 0: no queue at all
C11_Witness ==
    ~IsQueue(mq) /\ ~IsQueue(mq2) /\ ~IsQueue(imq)

\* a step of insert or insert_with_hash: they leave the window non-empty,
\* clear leaves it empty
InsertStep == win' # <<>>

\* in Spec, InsertStep picks the insert steps and no other
InsertStepIsInsert == [][InsertStep <=> (Insert \/ InsertWithHash)]_vars

\* the front entry of the buffer is the element inserted exactly W insert
\* calls ago: the window is full and its oldest element is its earliest minimum
FrontIsWCallsOld == Len(win) = W /\ EarliestMinIdx(win) = 1

\* C12: in an insert call, the front eviction removes the front entry iff
\* that entry was inserted exactly W insert calls earlier; it does not fire
\* during the first W insert calls after construction or after a clear, and
\* it never removes an element that is among the last W-1 inserted.
C12_EvictsExactlyTheWthOldest ==
    [][InsertStep =>
          /\ (pop_expired(mq) # mq.deq) <=> FrontIsWCallsOld
          /\ (Implicit_pop_expired(imq) # imq.deq) <=> FrontIsWCallsOld
          /\ Len(win) < W => pop_expired(mq) = mq.deq
          /\ pop_expired(mq) # mq.deq =>
                 /\ pop_expired(mq) = Tail(mq.deq)
                 /\ <<mq.deq[1][1], mq.deq[1][2]>> = win[1]
                 /\ Len(win') = W /\ \A i \in 1..(W - 1) : win'[i] = win[i + 1]
      ]_vars

\* a width-3 queue that has wrapped around (slots 1, 2, 0 in the buffer, slot
\* counter 1): the front entry was inserted three calls ago and the insert
\* that follows evicts it
C12_Witness ==
    /\ W = 3 /\ Len(win) = 3 /\ mq.pos = 1
    /\ Len(mq.deq) = 3 /\ mq.deq[1][3] = 1
    /\ pop_expired(mq) # mq.deq

\* C13: on insert with hash h the entries removed from the back are exactly
\* the maximal trailing run of entries with hash > h; an entry with hash = h
\* is never removed by the back scan, the kept entries stay in their order,
\* and the new entry is appended behind them with the current slot.
C13_BackScanRemovesStrictlyGreater ==
    [][InsertStep =>
          LET d1 == pop_expired(mq)
              d2 == mq'.deq
              k  == Len(d2) - 1
              h  == d2[Len(d2)][2]
              e1 == Implicit_pop_expired(imq)
              e2 == imq'.deq
          IN  /\ Len(d2) >= 1 /\ k <= Len(d1)
              /\ SubSeq(d2, 1, k) = SubSeq(d1, 1, k)
              /\ \A i \in (k + 1)..Len(d1) : d1[i][2] > h
              /\ k >= 1 => d1[k][2] <= h
              /\ \A i \in 1..Len(d1) : d1[i][2] = h => i <= k
              /\ d2[Len(d2)][3] = mq.pos
              /\ <<d2[Len(d2)][1], h>> = win'[Len(win')]
              /\ Len(e2) = Len(d2)
              /\ SubSeq(e2, 1, k) = SubSeq(e1, 1, k)
              /\ \A i \in (k + 1)..Len(e1) : e1[i][1] > h
              /\ e2[Len(e2)] = <<h, imq.pos>>
      ]_vars

\* width 3, hashes a, b, a with b > a inserted in a row: the back scan
\* removed b and kept the equal a, which stays in front of the new entry
C13_Witness ==
    /\ W = 3 /\ Len(win) = 3 /\ mq.pos = 0
    /\ win[1][2] = win[3][2] /\ win[2][2] > win[1][2]
    /\ win[1][1] # win[3][1]
    /\ mq.deq = <<<<win[1][1], win[1][2], 0>>, <<win[3][1], win[3][2], 2>>>>

\* number of insert calls since the entry with this slot was inserted, its
\* own insert included (1 = the newest element, W = the oldest of a window)
Age(q, slot) ==
    LET a == (q.pos - slot + q.width) % q.width
    IN  IF a = 0 THEN q.width ELSE a

\* C14: every entry of the buffer belongs to an element inserted within the
\* last W insert calls (since construction or the last clear), the stored
\* slots are pairwise distinct, and front-to-back order is insertion order;
\* so an element has left the buffer after at most W further inserts.
C14_EntriesAreRecentAndOrdered ==
    /\ \A i \in 1..Len(mq.deq) :
           LET a == Age(mq, mq.deq[i][3])
           IN  /\ mq.deq[i][3] \in 0..(W - 1)
               /\ a <= Len(win)
               /\ <<mq.deq[i][1], mq.deq[i][2]>> = win[Len(win) - a + 1]
    /\ \A i, j \in 1..Len(mq.deq) :
           i < j => /\ mq.deq[i][3] # mq.deq[j][3]
                    /\ Age(mq, mq.deq[i][3]) > Age(mq, mq.deq[j][3])
    /\ \A i \in 1..Len(imq.deq) :
           LET a == Age(imq, imq.deq[i][2])
           IN  /\ a <= Len(win)
               /\ imq.deq[i][1] = win[Len(win) - a + 1][2]
    /\ \A i, j \in 1..Len(imq.deq) :
           i < j => /\ imq.deq[i][2] # imq.deq[j][2]
                    /\ Age(imq, imq.deq[i][2]) > Age(imq, imq.deq[j][2])

\* a width-3 buffer that has wrapped around twice: three entries with slots
\* 2, 0, 1 and ages 3, 2, 1
C14_Witness ==
    /\ W = 3 /\ mq.pos = 2 /\ Len(mq.deq) = 3
    /\ mq.deq[1][3] = 2 /\ mq.deq[2][3] = 0 /\ mq.deq[3][3] = 1
    /\ mq.deq[1][2] < mq.deq[3][2]

\* C15: clear() leaves the buffer empty and leaves the slot counter and the
\* width (and the hasher) as they were; the slot counter is not reset to 0.
C15_ClearKeepsSlotCounter ==
    [][Clear =>
          /\ mq'.deq = <<>> /\ imq'.deq = <<>>
          /\ mq'.pos = mq.pos /\ imq'.pos = imq.pos
          /\ mq'.width = mq.width /\ imq'.width = imq.width
          /\ mq'.hash_builder = mq.hash_builder
          /\ imq'.hash_builder = imq.hash_builder
      ]_vars

\* a width-3 queue cleared after two (or five, ...) inserts: empty buffers,
\* slot counters still at 2
C15_Witness ==
    /\ W = 3 /\ win = <<>> /\ mq.deq = <<>> /\ imq.deq = <<>>
    /\ mq.pos = 2 /\ imq.pos = 2

\* C16: the slot counter is in [0, W) in every state (so width - pos does
\* not underflow), it is 0 at construction, every insert advances it by one
\* modulo W and stores its previous value as the new entry's slot, and no
\* other operation changes it.
C16_SlotCounterAdvancesModW ==
    /\ mq.pos = 0 /\ imq.pos = 0
    /\ [](/\ mq.pos \in 0..(W - 1) /\ imq.pos \in 0..(W - 1)
          /\ W - mq.pos >= 1)
    /\ [][/\ InsertStep =>
               /\ mq'.pos = (mq.pos + 1) % W
               /\ imq'.pos = (imq.pos + 1) % W
               /\ mq'.deq[Len(mq'.deq)][3] = mq.pos
               /\ imq'.deq[Len(imq'.deq)][2] = imq.pos
          /\ ~InsertStep =>
               /\ mq'.pos = mq.pos /\ imq'.pos = imq.pos
         ]_vars

\* a width-3 queue after exactly three inserts: the counter is back at 0 and
\* the newest entry carries slot 2
C16_Witness ==
    /\ W = 3 /\ mq.pos = 0 /\ imq.pos = 0 /\ Len(mq.deq) = 3
    /\ mq.deq[1][3] = 0 /\ mq.deq[3][3] = 2

\* C19: in every non-empty state, if multiple_mins() is false then
\* get_inner_min_pos() returns the element and position of get_min_pos()
\* and no second candidate; and its position is never smaller than the
\* position of get_min_pos().
C19_InnerMinExtendsMinPos ==
    ~is_empty(mq) =>
        /\ get_inner_min_pos(mq)[1] = "ok" /\ get_min_pos(mq)[1] = "ok"
        /\ Implicit_get_inner_min_pos(imq)[1] = "ok"
        /\ Implicit_get_min_pos(imq)[1] = "ok"
        /\ LET r == get_inner_min_pos(mq)[2]
               m == get_min_pos(mq)[2]
               ir == Implicit_get_inner_min_pos(imq)[2]
               im == Implicit_get_min_pos(imq)[2]
           IN  /\ ~multiple_mins(mq) => r = <<m[1], m[2], None>>
               /\ r[2] >= m[2]
               /\ ~Implicit_multiple_mins(imq) => ir = <<im, None>>
               /\ ir[1] >= im

\* a buffer of two entries with different hashes: no tie, the loop of
\* get_inner_min_pos stops at the second entry
C19_Witness ==
    /\ Len(mq.deq) = 2 /\ mq.deq[1][2] < mq.deq[2][2]
    /\ ~multiple_mins(mq)
    /\ get_inner_min_pos(mq) = Ok(<<mq.deq[1][1], W - 2, None>>)

\* C17: a cleared queue, whatever its slot counter, behaves like a freshly
\* constructed queue of the same width fed the same hashes: get_min,
\* get_min_pos, get_inner_min_pos, multiple_mins and is_empty agree after
\* every insert, while the slot counters and the stored slots differ by one
\* offset modulo W.  (mq is cleared, mq2 is rebuilt at each clear.)
C17_ClearedActsLikeFresh ==
    /\ is_empty(mq) = is_empty(mq2)
    /\ multiple_mins(mq) = multiple_mins(mq2)
    /\ get_min(mq) = get_min(mq2)
    /\ get_min_pos(mq) = get_min_pos(mq2)
    /\ get_inner_min_pos(mq) = get_inner_min_pos(mq2)
    /\ Len(mq.deq) = Len(mq2.deq)
    /\ LET d == (mq.pos + W - mq2.pos) % W
       IN  \A i \in 1..Len(mq.deq) :
               /\ mq.deq[i][1] = mq2.deq[i][1]
               /\ mq.deq[i][2] = mq2.deq[i][2]
               /\ mq.deq[i][3] = (mq2.deq[i][3] + d) % W

\* width 3: mq was cleared with its slot counter at 1, then both queues got
\* two equal hashes; their slots differ by 1 and the queries agree
C17_Witness ==
    /\ W = 3 /\ Len(win) = 2 /\ mq.pos = 0 /\ mq2.pos = 2
    /\ Len(mq.deq) = 2 /\ multiple_mins(mq) /\ multiple_mins(mq2)
    /\ mq.deq[1][3] = 1 /\ mq2.deq[1][3] = 0
    /\ get_min_pos(mq2) = Ok(<<mq.deq[1][1], 1>>)

\* C20 as stated: over a run of n inserts (and any clears) the inserts
\* remove at most n entries in total (front evictions plus back
\* truncations), the back scans make at most 2n hash comparisons, and a
\* single insert removes at most W-1 entries.
C20_SingleInsertRemovesBelowW ==
    /\ cost.removed <= cost.inserts
    /\ cost.compared <= 2 * cost.inserts
    /\ cost.last[1] + cost.last[2] <= W - 1

\* C20 amended: the totals are as stated (at most n removals, at most 2n
\* comparisons), and a single insert removes at most W entries: one front
\* eviction and at most W-1 back truncations.
C20_AmortizedConstantWork ==
    /\ cost.removed <= cost.inserts
    /\ cost.removed + Len(mq.deq) <= cost.inserts
    /\ cost.compared <= 2 * cost.inserts
    /\ cost.last[1] <= 1
    /\ cost.last[2] <= W - 1
    /\ cost.last[1] + cost.last[2] <= W

\* width 3, fourth insert: the front entry is evicted and the two entries
\* behind it are cut by a smaller hash, three removals in one call
C20_Witness ==
    /\ W = 3 /\ cost.inserts = 4 /\ cost.last = <<1, 2>>
    /\ cost.removed = 3 /\ cost.compared = 4
    /\ Len(mq.deq) = 1

\* C18: for every u16 width and every reachable state, the sum
\* width - pos + slot of get_min_pos and get_inner_min_pos fits in a u16,
\* so the reported position is (W - pos + slot) mod W over the integers.
C18_PositionSumFitsU16 ==
    /\ \A i \in 1..Len(mq.deq) :
           /\ (mq.width - mq.pos) + mq.deq[i][3] < U16Modulus
           /\ rel_pos(mq, mq.deq[i][3]) = (W - mq.pos + mq.deq[i][3]) % W
    /\ \A i \in 1..Len(imq.deq) :
           /\ (imq.width - imq.pos) + imq.deq[i][2] < U16Modulus
           /\ Implicit_rel_pos(imq, imq.deq[i][2]) =
                  (imq.width - imq.pos + imq.deq[i][2]) % imq.width

====
